---- MODULE Spec2Model ----
(***************************************************************************)
(* Model of the Raycast command "Generate Command"                         *)
(* (src/src/generate-command.tsx).                                         *)
(*                                                                         *)
(* A string is a sequence of one-character strings, so that trim,          *)
(* toLowerCase and includes are computed character by character.           *)
(* The state is the persisted LocalStorage item, the four React state      *)
(* cells of the component, and the locals of every handler in flight: the  *)
(* calls of generateCommand, the mount effect, the Clear History handler   *)
(* and the timers of Use Prompt.                                           *)
(* Every await of the source is a step boundary: the code before the await *)
(* and the call it awaits belong to one action, the code after it to the   *)
(* next. A storage call takes effect in the step that resolves it.         *)
(* closeMainWindow, Clipboard, showToast and showHUD are taken to resolve. *)
(*                                                                         *)
(* Spec is the component with its handlers interleaved. PromptSpec follows *)
(* one request through lines 186-197 (preferences, gatherContext,          *)
(* buildPrompt, the request to the provider), FilterSpec is the list of    *)
(* lines 234-236 over histories and search texts, DismissSpec is Spec with *)
(* the window dismissed while a call is in flight.                         *)
(***************************************************************************)
EXTENDS Integers, Sequences, FiniteSets, TLC

\* ------------------------------------------------------------ bounds

\* Calls of generateCommand in flight at the same time.
MaxSubs == 2
\* Recalls in one session (caps listKey and the pending timers).
MaxEpoch == 1
\* Clear History handlers whose continuation is pending at the same time.
MaxClears == 2
\* Actions the user takes in one session: typing, generating, recalling,
\* clearing.
MaxActions == 3

\* ------------------------------------------------------------ constants

MAX_HISTORY == 20

\* ------------------------------------------------------------ strings

Whitespace == {" ", "\t", "\n"}

Letters == <<"a", "b", "c", "d", "e", "f", "g", "h", "i", "j", "k",
             "l", "m", "n", "o", "p", "q", "r", "s", "t", "u">>

\* One-letter request texts: twenty-one distinct requests fill a history and
\* leave one that is new to it.
Name(i) == <<Letters[i]>>

Blank == <<>>
Spaces == <<" ">>
\* The requests of the session: one that a full history holds, one new to it.
Requests == {Name(2), Name(21)}
\* What the user types into the search bar.
Typed == {Blank, Spaces} \cup Requests

\* String.prototype.trim left out
untrimmed(s) == s

\* String.prototype.trim
RECURSIVE trimStart(_)
trimStart(s) ==
    IF s = <<>> THEN <<>>
    ELSE IF Head(s) \in Whitespace THEN trimStart(Tail(s)) ELSE s

RECURSIVE trimEnd(_)
trimEnd(s) ==
    IF s = <<>> THEN <<>>
    ELSE IF s[Len(s)] \in Whitespace THEN trimEnd(SubSeq(s, 1, Len(s) - 1)) ELSE s

trim(s) == trimEnd(trimStart(s))

\* String.prototype.toLowerCase, on the letters the model uses
lowerChar(c) ==
    CASE c = "A" -> "a"
      [] c = "B" -> "b"
      [] c = "C" -> "c"
      [] c = "G" -> "g"
      [] c = "L" -> "l"
      [] c = "S" -> "s"
      [] OTHER -> c

toLowerCase(s) == [i \in 1..Len(s) |-> lowerChar(s[i])]

\* String.prototype.includes
includes(s, q) ==
    \E i \in 0..(Len(s) - Len(q)) : SubSeq(s, i + 1, i + Len(q)) = q

\* Array.prototype.filter with the predicate (h) => h !== prompt
RECURSIVE filterNot(_, _)
filterNot(history, prompt) ==
    IF history = <<>> THEN <<>>
    ELSE IF Head(history) # prompt
         THEN <<Head(history)>> \o filterNot(Tail(history), prompt)
         ELSE filterNot(Tail(history), prompt)

\* Array.prototype.slice(0, n)
slice0(xs, n) == SubSeq(xs, 1, IF Len(xs) < n THEN Len(xs) ELSE n)

Range(xs) == {xs[i] : i \in 1..Len(xs)}

\* ------------------------------------------------------------ history

\* addToHistory without the filter of line 158
updatedHistoryUnfiltered(prompt, history) ==
    slice0(<<prompt>> \o history, MAX_HISTORY)

\* addToHistory without the slice of line 159
updatedHistoryUnsliced(prompt, history) ==
    <<prompt>> \o filterNot(history, prompt)

\* addToHistory, lines 158-159: the list it stores and returns
updatedHistory(prompt, history) ==
    slice0(<<prompt>> \o filterNot(history, prompt), MAX_HISTORY)

\* the predicate of line 235 without toLowerCase
matchesCaseSensitive(item, q) == includes(item, q)

\* the predicate of line 235
matches(item, q) == includes(toLowerCase(item), toLowerCase(q))

\* Array.prototype.filter with the predicate of line 235
RECURSIVE filterIncludes(_, _)
filterIncludes(history, q) ==
    IF history = <<>> THEN <<>>
    ELSE IF matches(Head(history), q)
         THEN <<Head(history)>> \o filterIncludes(Tail(history), q)
         ELSE filterIncludes(Tail(history), q)

\* Lists a previous session can have left in LocalStorage.
FullHistory == [i \in 1..MAX_HISTORY |-> Name(i)]
StoredAtLaunch == {<<>>, FullHistory}

\* ------------------------------------------------------------ backend

\* message.content[0] of the provider's answer, line 200
Responses ==
    { [type |-> "text", text |-> <<>>],
      [type |-> "text", text |-> <<" ", "\n">>],
      [type |-> "text", text |-> <<" ", "l", "s", "\n">>],
      [type |-> "tool_use", text |-> <<>>] }

NoMessage == [type |-> "none", text |-> <<>>]

\* lines 199-200 without the trim
commandOfUntrimmed(block) == IF block.type = "text" THEN block.text ELSE <<>>

\* lines 199-200
commandOf(block) == IF block.type = "text" THEN trim(block.text) ELSE <<>>

\* ------------------------------------------------------------ context

\* Context, lines 57-61: a field is <<>> when it is undefined and <<text>> when
\* it holds the string text.
undefined == <<>>
defined(text) == <<text>>
\* a value that an if of the source takes as true: a non-empty string
truthy(field) == field # undefined /\ field[1] # <<>>

\* what `osascript` of line 65 writes for an application or terminal asked
Terminal == <<"T", "e", "r", "m", "i", "n", "a", "l">>
iTerm2 == <<"i", "T", "e", "r", "m", "2">>
iTerm == <<"i", "T", "e", "r", "m">>
Hyper == <<"H", "y", "p", "e", "r">>
Warp == <<"W", "a", "r", "p">>
Alacritty == <<"A", "l", "a", "c", "r", "i", "t", "t", "y">>
Kitty == <<"k", "i", "t", "t", "y">>
Code == <<"C", "o", "d", "e">>
Cursor == <<"C", "u", "r", "s", "o", "r">>
Zed == <<"Z", "e", "d">>
SublimeText == <<"S", "u", "b", "l", "i", "m", "e", " ", "T", "e", "x", "t">>
Atom == <<"A", "t", "o", "m">>
WebStorm == <<"W", "e", "b", "S", "t", "o", "r", "m">>
IntelliJIDEA ==
    <<"I", "n", "t", "e", "l", "l", "i", "J", " ", "I", "D", "E", "A">>
PyCharm == <<"P", "y", "C", "h", "a", "r", "m">>
VisualStudioCode ==
    <<"V", "i", "s", "u", "a", "l", " ", "S", "t", "u", "d", "i", "o", " ",
    "C", "o", "d", "e">>
Safari == <<"S", "a", "f", "a", "r", "i">>

\* lines 111-128
RELEVANT_APPS ==
    {Terminal, iTerm2, iTerm, Hyper, Warp, Alacritty, Kitty, Code, Cursor,
     Zed, SublimeText, Atom, WebStorm, IntelliJIDEA, PyCharm,
     VisualStudioCode}

\* the selection and the directories a session is run with
Selected == <<"x">>
TabTitle == <<"/", "t">>
WindowName == <<"/", "w">>
SessionPath == <<"/", "i">>

\* line 141
SelectedTextLimit == 2000
Filler(n) == [i \in 1..n |-> "x"]

\* what getSelectedText() of line 76 resolves with when it does
Selections ==
    {<<>>, Selected, Filler(SelectedTextLimit - 1), Filler(SelectedTextLimit)}
\* what osascript writes for the scripts of lines 82-90, 94, 98, 104
AppOutputs ==
    {<<"\n">>} \cup {app \o <<"\n">> : app \in {Terminal, iTerm2, iTerm, Code, Safari}}
TitleOutputs == {<<"\n">>, TabTitle \o <<"\n">>}
WindowOutputs == {<<"\n">>, WindowName \o <<"\n">>}
PathOutputs == {<<"\n">>, SessionPath \o <<"\n">>}
\* execSync of line 65 returns the output or throws
Ran(outputs) == {undefined} \cup {defined(output) : output \in outputs}

\* lines 63-69
runAppleScript(ran) ==
    IF ran = undefined THEN undefined ELSE defined(trim(ran[1]))

\* the branch of line 103 taken for every application but Terminal
isITermOrOther(currentApp) == currentApp # defined(Terminal)
\* line 93
isTerminal(currentApp) == currentApp = defined(Terminal)
\* line 103
isITerm(currentApp) == currentApp = defined(iTerm2) \/ currentApp = defined(iTerm)

NoContext ==
    [selectedText |-> undefined, currentApp |-> undefined,
     currentDirectory |-> undefined]

\* ------------------------------------------------------------ buildPrompt

ContextHeader == <<"C", "o", "n", "t", "e", "x", "t", ":", "\n">>
CurrentAppLabel ==
    <<"C", "u", "r", "r", "e", "n", "t", " ", "a", "p", "p", ":", " ">>
CurrentDirectoryLabel ==
    <<"C", "u", "r", "r", "e", "n", "t", " ", "d", "i", "r", "e", "c", "t",
    "o", "r", "y", ":", " ">>
SelectedTextLabel ==
    <<"S", "e", "l", "e", "c", "t", "e", "d", " ", "t", "e", "x", "t", ":",
    "\n">>
RequestLabel == <<"\n", "\n", "R", "e", "q", "u", "e", "s", "t", ":", " ">>

\* line 134
keepsApp(context) ==
    truthy(context.currentApp) /\ context.currentApp[1] \in RELEVANT_APPS
\* the directory kept for a relevant application only
keepsDirectoryOfRelevantApp(context) ==
    truthy(context.currentDirectory) /\ keepsApp(context)
\* line 137
keepsDirectory(context) == truthy(context.currentDirectory)
\* line 141
keepsSelectedText(context) ==
    truthy(context.selectedText) /\ Len(context.selectedText[1]) < SelectedTextLimit

\* the directory pushed before the application
partsDirectoryFirst(context) ==
    (IF keepsDirectory(context)
     THEN <<CurrentDirectoryLabel \o context.currentDirectory[1]>> ELSE <<>>)
    \o (IF keepsApp(context)
        THEN <<CurrentAppLabel \o context.currentApp[1]>> ELSE <<>>)
    \o (IF keepsSelectedText(context)
        THEN <<SelectedTextLabel \o context.selectedText[1]>> ELSE <<>>)

\* lines 132-143
parts(context) ==
    (IF keepsApp(context)
     THEN <<CurrentAppLabel \o context.currentApp[1]>> ELSE <<>>)
    \o (IF keepsDirectory(context)
        THEN <<CurrentDirectoryLabel \o context.currentDirectory[1]>> ELSE <<>>)
    \o (IF keepsSelectedText(context)
        THEN <<SelectedTextLabel \o context.selectedText[1]>> ELSE <<>>)

\* Array.prototype.join, line 146
RECURSIVE join(_, _)
join(strings, separator) ==
    IF strings = <<>> THEN <<>>
    ELSE IF Len(strings) = 1 THEN strings[1]
    ELSE strings[1] \o separator \o join(Tail(strings), separator)

\* the request labelled whether or not there is a context
buildPromptLabelled(userPrompt, context) ==
    IF Len(parts(context)) > 0
    THEN ContextHeader \o join(parts(context), <<"\n">>) \o RequestLabel \o userPrompt
    ELSE <<"R", "e", "q", "u", "e", "s", "t", ":", " ">> \o userPrompt

\* lines 130-149
buildPrompt(userPrompt, context) ==
    IF Len(parts(context)) > 0
    THEN ContextHeader \o join(parts(context), <<"\n">>) \o RequestLabel \o userPrompt
    ELSE userPrompt

\* ------------------------------------------------------------ preferences

\* raycast-env.d.ts line 12
Models == {"gemini-flash-lite", "claude-haiku"}
\* no request made yet
NoRequest == [provider |-> "none", credential |-> "none", model |-> "none"]

\* ------------------------------------------------------------ state

Subs == 1..MaxSubs

VARIABLES
    stored,      \* LocalStorage item HISTORY_KEY, parsed
    apiKey,      \* preferences.anthropicApiKey is set
    searchText,  \* useState, line 165
    isLoading,   \* useState, line 166
    history,     \* useState, line 167
    listKey,     \* useState, line 168
    timers,      \* pending setTimeout callbacks of line 284, oldest first
    loadPc,      \* the mount effect of line 171
    loaded,      \* the list its getHistory() resolved with
    clearing,    \* Clear History handlers between removeItem and setHistory
    acted,       \* actions the user has taken
    pc,          \* where each call of generateCommand stands
    prompt,      \* its parameter prompt
    copyOnly,    \* its parameter copyOnly
    message,     \* its local message (content[0])
    command,     \* its local command
    hist,        \* addToHistory's local history
    updated,     \* addToHistory's local updated, generateCommand's updatedHistory
    calls,       \* what the call has asked of its collaborators so far
    dismissed,   \* the user has dismissed the window of the command
    model,       \* preferences.model, raycast-env.d.ts line 12
    userPrompt,  \* the request text handed to buildPrompt, line 190
    context,     \* gatherContext's local context, line 72
    gatherPc,    \* where the request of lines 186-197 stands
    fullPrompt,  \* generateCommand's local fullPrompt, line 190
    request      \* the request made of a provider, lines 187-197

vars == <<stored, apiKey, searchText, isLoading, history, listKey, timers,
          loadPc, loaded, clearing, acted, pc, prompt, copyOnly, message,
          command, hist, updated, calls, dismissed, model, userPrompt, context,
          gatherPc, fullPrompt, request>>

env == <<stored, apiKey>>
ui == <<searchText, isLoading, history, listKey, timers>>
mount == <<loadPc, loaded>>
locals == <<prompt, copyOnly, message, command, hist, updated>>
pipeline == <<model, userPrompt, context, gatherPc, fullPrompt, request>>

NoCalls ==
    [toast |-> "none", failure |-> "none", probed |-> FALSE, backend |-> FALSE,
     setItem |-> FALSE, setHistory |-> FALSE, closed |-> FALSE,
     clipboard |-> "none", hud |-> FALSE]

\* the component as it is constructed, lines 165-168, no handler called yet
Constructed ==
    /\ searchText = <<>>
    /\ isLoading = FALSE
    /\ history = <<>>
    /\ listKey = 0
    /\ timers = <<>>
    /\ loadPc = "getItem"
    /\ loaded = <<>>
    /\ clearing = 0
    /\ acted = 0
    /\ pc = [s \in Subs |-> "idle"]
    /\ prompt = [s \in Subs |-> <<>>]
    /\ copyOnly = [s \in Subs |-> FALSE]
    /\ message = [s \in Subs |-> NoMessage]
    /\ command = [s \in Subs |-> <<>>]
    /\ hist = [s \in Subs |-> <<>>]
    /\ updated = [s \in Subs |-> <<>>]
    /\ calls = [s \in Subs |-> NoCalls]
    /\ dismissed = FALSE

\* the command is launched; no request is followed through lines 186-197
Init ==
    /\ stored \in StoredAtLaunch
    /\ apiKey \in BOOLEAN
    /\ Constructed
    /\ model = "claude-haiku"
    /\ userPrompt = <<>>
    /\ context = NoContext
    /\ gatherPc = "idle"
    /\ fullPrompt = <<>>
    /\ request = NoRequest

\* ------------------------------------------------------------ the list

\* lines 234-236
filteredHistory ==
    IF trim(searchText) # <<>> THEN filterIncludes(history, searchText) ELSE history

\* a History item with this title is rendered, lines 264-270
rendered(item) ==
    /\ item \in Range(history)
    /\ trim(searchText) # <<>> => matches(item, searchText)

\* onSearchTextChange, line 243
onSearchTextChange(text) ==
    /\ acted < MaxActions
    /\ acted' = acted + 1
    /\ ~dismissed
    /\ searchText' = text
    /\ UNCHANGED <<env, isLoading, history, listKey, timers, mount, clearing, pc,
                   locals, calls>>
    /\ UNCHANGED <<dismissed, pipeline>>

\* ------------------------------------------------------------ mount

\* useEffect, line 171: getHistory() resolves with the stored list
mountGetHistory ==
    /\ loadPc = "getItem"
    /\ loaded' = stored
    /\ loadPc' = "then"
    /\ UNCHANGED <<env, ui, clearing, acted, pc, locals, calls>>
    /\ UNCHANGED <<dismissed, pipeline>>

\* getHistory() rejects (the read fails or JSON.parse throws, lines 152-153):
\* the promise of line 171 has no rejection handler, setHistory is not called
mountGetHistoryRejects ==
    /\ loadPc = "getItem"
    /\ loadPc' = "rejected"
    /\ UNCHANGED <<env, ui, loaded, clearing, acted, pc, locals, calls>>
    /\ UNCHANGED <<dismissed, pipeline>>

\* .then(setHistory), line 171
mountSetHistory ==
    /\ loadPc = "then"
    /\ history' = loaded
    /\ loaded' = <<>>
    /\ loadPc' = "done"
    /\ UNCHANGED <<env, searchText, isLoading, listKey, timers, clearing, acted,
                   pc, locals, calls>>
    /\ UNCHANGED <<dismissed, pipeline>>

\* ------------------------------------------------------------ generateCommand

\* lines 222-229: a throw inside the try block reaches the catch block, which
\* shows the failure toast and awaits it
catch(s, kind) ==
    /\ calls' = [calls EXCEPT ![s].toast = "Error", ![s].failure = kind]
    /\ pc' = [pc EXCEPT ![s] = "catch"]
    /\ hist' = [hist EXCEPT ![s] = <<>>]
    /\ UNCHANGED <<prompt, copyOnly, message, command, updated>>

\* the call returns: its parameters, its locals and the record of its calls
\* are gone
return(s) ==
    /\ pc' = [pc EXCEPT ![s] = "idle"]
    /\ prompt' = [prompt EXCEPT ![s] = <<>>]
    /\ copyOnly' = [copyOnly EXCEPT ![s] = FALSE]
    /\ message' = [message EXCEPT ![s] = NoMessage]
    /\ command' = [command EXCEPT ![s] = <<>>]
    /\ updated' = [updated EXCEPT ![s] = <<>>]
    /\ calls' = [calls EXCEPT ![s] = NoCalls]
    /\ UNCHANGED hist

\* Generate & Paste, Generate & Copy (lines 254, 258) call generateCommand with
\* the search text; lines 174-189: validation, setIsLoading(true), the client,
\* gatherContext(). Without a key the client's constructor throws, or the
\* request of line 192 does, as the SDK's version has it.
generateCommand(s, copy) ==
    /\ acted < MaxActions
    /\ acted' = acted + 1
    /\ ~dismissed
    /\ pc[s] = "idle"
    /\ \A r \in Subs : r < s => pc[r] # "idle"
    /\ prompt' = [prompt EXCEPT ![s] = searchText]
    /\ copyOnly' = [copyOnly EXCEPT ![s] = copy]
    /\ IF trim(searchText) = <<>>
       THEN /\ calls' = [calls EXCEPT ![s].toast = "Please enter a description",
                                      ![s].failure = "validation"]
            /\ pc' = [pc EXCEPT ![s] = "rejected"]
            /\ UNCHANGED isLoading
       ELSE /\ isLoading' = TRUE
            /\ \/ /\ pc' = [pc EXCEPT ![s] = "gatherContext"]
                  /\ UNCHANGED calls
               \/ /\ ~apiKey
                  /\ calls' = [calls EXCEPT ![s].toast = "Error",
                                            ![s].failure = "credential"]
                  /\ pc' = [pc EXCEPT ![s] = "catch"]
    /\ UNCHANGED <<env, searchText, history, listKey, timers, mount, clearing,
                   message, command, hist, updated>>
    /\ UNCHANGED <<dismissed, pipeline>>

\* lines 189-197: the context is gathered, the prompt built, the request made
messagesCreate(s) ==
    /\ pc[s] = "gatherContext"
    /\ IF apiKey
       THEN /\ calls' = [calls EXCEPT ![s].probed = TRUE, ![s].backend = TRUE]
            /\ pc' = [pc EXCEPT ![s] = "create"]
       ELSE /\ calls' = [calls EXCEPT ![s].probed = TRUE, ![s].toast = "Error",
                                      ![s].failure = "credential"]
            /\ pc' = [pc EXCEPT ![s] = "catch"]
    /\ UNCHANGED <<env, ui, mount, clearing, acted, locals>>
    /\ UNCHANGED <<dismissed, pipeline>>

\* the request throws or is rejected
messagesCreateRejects(s) ==
    /\ pc[s] = "create"
    /\ catch(s, "transport")
    /\ UNCHANGED <<env, ui, mount, clearing, acted>>
    /\ UNCHANGED <<dismissed, pipeline>>

\* lines 199-211: the answer arrives; an empty command ends the call with a
\* toast, any other is recorded
messagesCreateResolves(s, block) ==
    /\ pc[s] = "create"
    /\ message' = [message EXCEPT ![s] = block]
    /\ command' = [command EXCEPT ![s] = commandOf(block)]
    /\ IF commandOf(block) = <<>>
       THEN /\ calls' = [calls EXCEPT ![s].toast = "No command generated",
                                      ![s].failure = "empty"]
            /\ pc' = [pc EXCEPT ![s] = "empty"]
       ELSE /\ pc' = [pc EXCEPT ![s] = "getItem"]
            /\ UNCHANGED calls
    /\ UNCHANGED <<env, ui, mount, clearing, acted, prompt, copyOnly, hist, updated>>
    /\ UNCHANGED <<dismissed, pipeline>>

\* addToHistory, line 157: getHistory() resolves with the stored list
addToHistoryGet(s) ==
    /\ pc[s] = "getItem"
    /\ hist' = [hist EXCEPT ![s] = stored]
    /\ pc' = [pc EXCEPT ![s] = "setItem"]
    /\ UNCHANGED <<env, ui, mount, clearing, acted, prompt, copyOnly, message,
                   command, updated, calls>>
    /\ UNCHANGED <<dismissed, pipeline>>

\* getHistory() rejects inside addToHistory: the catch block of line 222 runs
addToHistoryGetRejects(s) ==
    /\ pc[s] = "getItem"
    /\ catch(s, "read")
    /\ UNCHANGED <<env, ui, mount, clearing, acted>>
    /\ UNCHANGED <<dismissed, pipeline>>

\* addToHistory, lines 158-161: the list is rebuilt, stored and returned
addToHistorySet(s) ==
    /\ pc[s] = "setItem"
    /\ updated' = [updated EXCEPT ![s] = updatedHistory(prompt[s], hist[s])]
    /\ stored' = updatedHistory(prompt[s], hist[s])
    /\ calls' = [calls EXCEPT ![s].setItem = TRUE]
    /\ hist' = [hist EXCEPT ![s] = <<>>]
    /\ pc' = [pc EXCEPT ![s] = "setHistory"]
    /\ UNCHANGED <<apiKey, ui, mount, clearing, acted, prompt, copyOnly, message,
                   command>>
    /\ UNCHANGED <<dismissed, pipeline>>

\* LocalStorage.setItem rejects: the catch block of line 222 runs
addToHistorySetRejects(s) ==
    /\ pc[s] = "setItem"
    /\ catch(s, "write")
    /\ UNCHANGED <<env, ui, mount, clearing, acted>>
    /\ UNCHANGED <<dismissed, pipeline>>

\* lines 212-213
setHistoryUpdated(s) ==
    /\ pc[s] = "setHistory"
    /\ history' = updated[s]
    /\ calls' = [calls EXCEPT ![s].setHistory = TRUE, ![s].closed = TRUE]
    /\ pc' = [pc EXCEPT ![s] = "clipboard"]
    /\ UNCHANGED <<env, searchText, isLoading, listKey, timers, mount, clearing,
                   acted, locals>>
    /\ UNCHANGED <<dismissed, pipeline>>

\* lines 215-216 and 219
clipboard(s) ==
    /\ pc[s] = "clipboard"
    /\ calls' = [calls EXCEPT ![s].clipboard = IF copyOnly[s] THEN "copy" ELSE "paste"]
    /\ pc' = [pc EXCEPT ![s] = "showHUD"]
    /\ UNCHANGED <<env, ui, mount, clearing, acted, locals>>
    /\ UNCHANGED <<dismissed, pipeline>>

\* lines 217 and 220
showHUD(s) ==
    /\ pc[s] = "showHUD"
    /\ calls' = [calls EXCEPT ![s].hud = TRUE]
    /\ pc' = [pc EXCEPT ![s] = "hud"]
    /\ UNCHANGED <<env, ui, mount, clearing, acted, locals>>
    /\ UNCHANGED <<dismissed, pipeline>>

\* lines 180 and 221: the toast or the HUD is up, the call returns
returns(s) ==
    /\ pc[s] \in {"rejected", "hud"}
    /\ return(s)
    /\ UNCHANGED <<env, ui, mount, clearing, acted>>
    /\ UNCHANGED <<dismissed, pipeline>>

\* lines 207-208 and 230: the failure toast is up, the flag is cleared, the
\* call returns
setIsLoadingFalse(s) ==
    /\ pc[s] \in {"empty", "catch"}
    /\ isLoading' = FALSE
    /\ return(s)
    /\ UNCHANGED <<env, searchText, history, listKey, timers, mount, clearing, acted>>
    /\ UNCHANGED <<dismissed, pipeline>>

\* ------------------------------------------------------------ history items

\* Use Prompt regenerating at once instead of seeding the search bar only
usePromptRegenerates(item) ==
    /\ acted < MaxActions
    /\ acted' = acted + 1
    /\ ~dismissed
    /\ rendered(item)
    /\ listKey + Len(timers) < MaxEpoch
    /\ searchText' = item
    /\ isLoading' = TRUE
    /\ timers' = Append(timers, item)
    /\ UNCHANGED <<env, history, listKey, mount, clearing, pc, locals, calls>>
    /\ UNCHANGED <<dismissed, pipeline>>

\* Use Prompt, lines 275-285
usePrompt(item) ==
    /\ acted < MaxActions
    /\ acted' = acted + 1
    /\ ~dismissed
    /\ rendered(item)
    /\ listKey + Len(timers) < MaxEpoch
    /\ searchText' = item
    /\ timers' = Append(timers, item)
    /\ UNCHANGED <<env, isLoading, history, listKey, mount, clearing, pc, locals,
                   calls>>
    /\ UNCHANGED <<dismissed, pipeline>>

\* the timer callback remounting the List with an empty search bar
setListKeyLosesText ==
    /\ timers # <<>>
    /\ listKey' = listKey + 1
    /\ timers' = Tail(timers)
    /\ searchText' = <<>>
    /\ UNCHANGED <<env, isLoading, history, mount, clearing, acted, pc, locals,
                   calls>>
    /\ UNCHANGED <<dismissed, pipeline>>

\* the timer callback of line 284
setListKey ==
    /\ timers # <<>>
    /\ listKey' = listKey + 1
    /\ timers' = Tail(timers)
    /\ UNCHANGED <<env, searchText, isLoading, history, mount, clearing, acted, pc,
                   locals, calls>>
    /\ UNCHANGED <<dismissed, pipeline>>

\* Clear History, line 292: the item is removed
clearHistoryRemove ==
    /\ acted < MaxActions
    /\ acted' = acted + 1
    /\ ~dismissed
    /\ \E item \in Range(history) : rendered(item)
    /\ clearing < MaxClears
    /\ stored' = <<>>
    /\ clearing' = clearing + 1
    /\ UNCHANGED <<apiKey, ui, mount, pc, locals, calls>>
    /\ UNCHANGED <<dismissed, pipeline>>

\* Clear History without the setHistory([]) of line 293
clearHistorySetKeeps ==
    /\ clearing > 0
    /\ clearing' = clearing - 1
    /\ UNCHANGED <<env, ui, mount, acted, pc, locals, calls>>
    /\ UNCHANGED <<dismissed, pipeline>>

\* Clear History, lines 293-294
clearHistorySet ==
    /\ clearing > 0
    /\ history' = <<>>
    /\ clearing' = clearing - 1
    /\ UNCHANGED <<env, searchText, isLoading, listKey, timers, mount, acted, pc,
                   locals, calls>>
    /\ UNCHANGED <<dismissed, pipeline>>

\* ------------------------------------------------------------ specification

Next ==
    \/ \E text \in Typed : onSearchTextChange(text)
    \/ mountGetHistory
    \/ mountGetHistoryRejects
    \/ mountSetHistory
    \/ \E s \in Subs, copy \in BOOLEAN : generateCommand(s, copy)
    \/ \E s \in Subs : messagesCreate(s)
    \/ \E s \in Subs : messagesCreateRejects(s)
    \/ \E s \in Subs, block \in Responses : messagesCreateResolves(s, block)
    \/ \E s \in Subs : addToHistoryGet(s)
    \/ \E s \in Subs : addToHistoryGetRejects(s)
    \/ \E s \in Subs : addToHistorySet(s)
    \/ \E s \in Subs : addToHistorySetRejects(s)
    \/ \E s \in Subs : setHistoryUpdated(s)
    \/ \E s \in Subs : clipboard(s)
    \/ \E s \in Subs : showHUD(s)
    \/ \E s \in Subs : returns(s)
    \/ \E s \in Subs : setIsLoadingFalse(s)
    \/ \E item \in Requests : usePrompt(item)
    \/ setListKey
    \/ clearHistoryRemove
    \/ clearHistorySet

Spec == Init /\ [][Next]_vars

\* ------------------------------------------------------------ dismissal

\* The user dismisses the window of the command while a call awaits the
\* context or the answer (lines 189, 192). No handler of the component runs:
\* the request carries no abort signal and the component has no cleanup, so
\* the calls in flight go on.
dismissWindow ==
    /\ ~dismissed
    /\ \E s \in Subs : pc[s] \in {"gatherContext", "create"}
    /\ dismissed' = TRUE
    /\ UNCHANGED <<env, ui, mount, clearing, acted, pc, locals, calls, pipeline>>

DismissNext ==
    \/ Next
    \/ dismissWindow

DismissSpec == Init /\ [][DismissNext]_vars

\* ------------------------------------------------------------ one request

\* One call of generateCommand followed through lines 186-197 with what it
\* reads of its surroundings: the preferences, the selection, the frontmost
\* application and its directory.

component == <<env, ui, mount, clearing, acted, pc, locals, calls, dismissed>>

PromptInit ==
    /\ stored = <<>>
    /\ apiKey \in BOOLEAN
    /\ Constructed
    /\ model \in Models
    /\ userPrompt \in Requests
    /\ context = NoContext
    /\ gatherPc = "getPreferenceValues"
    /\ fullPrompt = <<>>
    /\ request = NoRequest

\* lines 186-189: the preferences are read, the client is made (its
\* constructor may throw without a key), gatherContext() is called
getPreferenceValues ==
    /\ gatherPc = "getPreferenceValues"
    /\ \/ gatherPc' = "getSelectedText"
       \/ ~apiKey /\ gatherPc' = "catch"
    /\ UNCHANGED <<component, model, userPrompt, context, fullPrompt, request>>

\* line 76
gatherSelectedText(text) ==
    /\ gatherPc = "getSelectedText"
    /\ context' = [context EXCEPT !.selectedText = defined(text)]
    /\ gatherPc' = "currentApp"
    /\ UNCHANGED <<component, model, userPrompt, fullPrompt, request>>

\* lines 77-79: getSelectedText() throws, the field stays undefined
gatherSelectedTextThrows ==
    /\ gatherPc = "getSelectedText"
    /\ gatherPc' = "currentApp"
    /\ UNCHANGED <<component, model, userPrompt, context, fullPrompt, request>>

\* lines 82-90, and the branches of lines 93 and 103
gatherCurrentApp(ran) ==
    /\ gatherPc = "currentApp"
    /\ context' = [context EXCEPT !.currentApp = runAppleScript(ran)]
    /\ gatherPc' = IF isTerminal(context'.currentApp) THEN "tabTitle"
                   ELSE IF isITerm(context'.currentApp) THEN "sessionPath"
                   ELSE "buildPrompt"
    /\ UNCHANGED <<component, model, userPrompt, fullPrompt, request>>

\* lines 94-96 and 100-102
gatherTabTitle(ran) ==
    /\ gatherPc = "tabTitle"
    /\ IF ~truthy(runAppleScript(ran))
       THEN /\ gatherPc' = "windowName"
            /\ UNCHANGED context
       ELSE /\ context' = [context EXCEPT !.currentDirectory = runAppleScript(ran)]
            /\ gatherPc' = "buildPrompt"
    /\ UNCHANGED <<component, model, userPrompt, fullPrompt, request>>

\* lines 98-99
gatherWindowName(ran) ==
    /\ gatherPc = "windowName"
    /\ context' = [context EXCEPT !.currentDirectory = runAppleScript(ran)]
    /\ gatherPc' = "buildPrompt"
    /\ UNCHANGED <<component, model, userPrompt, fullPrompt, request>>

\* lines 104-105
gatherSessionPath(ran) ==
    /\ gatherPc = "sessionPath"
    /\ context' = [context EXCEPT !.currentDirectory = runAppleScript(ran)]
    /\ gatherPc' = "buildPrompt"
    /\ UNCHANGED <<component, model, userPrompt, fullPrompt, request>>

\* line 190
callBuildPrompt ==
    /\ gatherPc = "buildPrompt"
    /\ fullPrompt' = buildPrompt(userPrompt, context)
    /\ gatherPc' = "create"
    /\ UNCHANGED <<component, model, userPrompt, context, request>>

\* lines 187 and 192-197: the request goes to the client made at line 187
\* with preferences.anthropicApiKey, for the model named at line 193
requestCreate ==
    /\ gatherPc = "create"
    /\ IF apiKey
       THEN /\ request' = [provider |-> "anthropic",
                           credential |-> "anthropicApiKey",
                           model |-> "claude-haiku-4-5-20251001"]
            /\ gatherPc' = "sent"
       ELSE /\ gatherPc' = "catch"
            /\ UNCHANGED request
    /\ UNCHANGED <<component, model, userPrompt, context, fullPrompt>>

PromptNext ==
    \/ getPreferenceValues
    \/ \E text \in Selections : gatherSelectedText(text)
    \/ gatherSelectedTextThrows
    \/ \E ran \in Ran(AppOutputs) : gatherCurrentApp(ran)
    \/ \E ran \in Ran(TitleOutputs) : gatherTabTitle(ran)
    \/ \E ran \in Ran(WindowOutputs) : gatherWindowName(ran)
    \/ \E ran \in Ran(PathOutputs) : gatherSessionPath(ran)
    \/ callBuildPrompt
    \/ requestCreate

PromptSpec == PromptInit /\ [][PromptNext]_vars

\* ------------------------------------------------------------ the filter

\* The list of lines 234-236 for the histories and the search texts below:
\* the component is mounted with a history, the user types.

Alpha == <<"A", "l", "p", "h", "a">>
Beta == <<"b", "e", "t", "a">>
Gamma == <<"G", "a", "m", "m", "a">>
Entries == {Alpha, Beta, Gamma}
\* the lists without duplicates that addToHistory can have made of them
Histories ==
    {h \in UNION {[1..n -> Entries] : n \in 0..Cardinality(Entries)} :
        \A i, j \in 1..Len(h) : h[i] = h[j] => i = j}
Queries ==
    {<<>>, <<" ">>, <<" ", " ">>, <<"a">>, <<"A">>, <<"A", "L">>, <<"G">>,
     <<"m", "m">>, <<"b">>, <<" ", "a">>, <<"a", " ">>, <<"z">>}

FilterInit ==
    /\ stored \in Histories
    /\ apiKey \in BOOLEAN
    /\ searchText = <<>>
    /\ isLoading = FALSE
    /\ history = stored
    /\ listKey = 0
    /\ timers = <<>>
    /\ loadPc = "done"
    /\ loaded = <<>>
    /\ clearing = 0
    /\ acted = 0
    /\ pc = [s \in Subs |-> "idle"]
    /\ prompt = [s \in Subs |-> <<>>]
    /\ copyOnly = [s \in Subs |-> FALSE]
    /\ message = [s \in Subs |-> NoMessage]
    /\ command = [s \in Subs |-> <<>>]
    /\ hist = [s \in Subs |-> <<>>]
    /\ updated = [s \in Subs |-> <<>>]
    /\ calls = [s \in Subs |-> NoCalls]
    /\ dismissed = FALSE
    /\ model = "claude-haiku"
    /\ userPrompt = <<>>
    /\ context = NoContext
    /\ gatherPc = "idle"
    /\ fullPrompt = <<>>
    /\ request = NoRequest

FilterNext == \E text \in Queries : onSearchTextChange(text)

FilterSpec == FilterInit /\ [][FilterNext]_vars

\* ------------------------------------------------------------ properties

Min(a, b) == IF a < b THEN a ELSE b

NoDuplicates(xs) == \A i, j \in 1..Len(xs) : i # j => xs[i] # xs[j]

IsBlank(s) == \A i \in 1..Len(s) : s[i] \in Whitespace

\* e, then the entries of H other than e in their order, cut to MAX_HISTORY
Recorded(e, H) ==
    LET kept == SelectSeq(H, LAMBDA h : h # e)
    IN  SubSeq(<<e>> \o kept, 1, Min(Len(kept) + 1, MAX_HISTORY))

\* the call is past its validation
Generating(s) == pc[s] \notin {"idle", "rejected"}

\* addToHistory of call s stores its list in this step
Stores(s) == pc[s] = "setItem" /\ pc'[s] = "setHistory"

\* C1: the persisted history holds no two equal entries and at most
\* MAX_HISTORY entries, in every reachable state.
C1_HistoryBounded == NoDuplicates(stored) /\ Len(stored) <= MAX_HISTORY

\* a new request has been recorded into a full history
C1_Witness ==
    /\ Len(stored) = MAX_HISTORY
    /\ stored[1] = Name(21)
    /\ \E s \in Subs : calls[s].setItem

\* C2: addToHistory(e) that nothing interferes with (the list it read is the
\* list stored when it writes) stores and returns e followed by the other
\* entries of that list in their order, cut to MAX_HISTORY; an entry of the
\* list moves to the front and the length stays, a new entry into a full list
\* drops the last one.
C2_RecordResult ==
    [][\A s \in Subs :
         (Stores(s) /\ hist[s] = stored) =>
            /\ stored' = Recorded(prompt[s], stored)
            /\ updated'[s] = stored'
            /\ stored'[1] = prompt[s]
            /\ prompt[s] \in Range(stored) => Len(stored') = Len(stored)
            /\ (prompt[s] \notin Range(stored) /\ Len(stored) = MAX_HISTORY) =>
                  stored' = <<prompt[s]>> \o SubSeq(stored, 1, MAX_HISTORY - 1)]_vars

\* a new request was stored over a full list, whose last entry is gone
C2_Witness ==
    \E s \in Subs :
        /\ pc[s] = "setHistory"
        /\ updated[s] = <<Name(21)>> \o SubSeq(FullHistory, 1, MAX_HISTORY - 1)
        /\ stored = updated[s]

\* the provider answered call s with nothing usable
EmptyAnswer(s) ==
    /\ message[s].type # "none"
    /\ message[s].type = "text" => IsBlank(message[s].text)

\* call s is past the request of line 192 with no key configured
MissingCredential(s) ==
    ~apiKey /\ pc[s] \notin {"idle", "rejected", "gatherContext"}

\* the generation of call s has failed
GenerationFailed(s) ==
    MissingCredential(s) \/ calls[s].failure = "transport" \/ EmptyAnswer(s)

\* C3: a call whose generation failed (no credential, the request threw or
\* was rejected, the answer is empty after trimming) has shown a failure
\* toast, has written neither the stored nor the cached history, has neither
\* pasted nor copied, and returns leaving isLoading false and both histories
\* as they are.
C3_FailureLeavesNoTrace ==
    /\ [](\A s \in Subs :
            GenerationFailed(s) =>
               /\ pc[s] \in {"catch", "empty"}
               /\ calls[s].toast \in {"Error", "No command generated"}
               /\ ~calls[s].setItem
               /\ ~calls[s].setHistory
               /\ calls[s].clipboard = "none")
    /\ [][\A s \in Subs :
            (GenerationFailed(s) /\ pc'[s] = "idle") =>
               /\ isLoading' = FALSE
               /\ stored' = stored
               /\ history' = history]_vars

\* an answer of whitespace only has been turned down with the toast
C3_Witness ==
    \E s \in Subs :
        /\ pc[s] = "empty"
        /\ message[s] = [type |-> "text", text |-> <<" ", "\n">>]
        /\ calls[s].toast = "No command generated"

\* C4: every call that set isLoading returns with isLoading false, on the
\* success path as on the failure paths. (Stated on the returning step.)
C4_ReturnsIdle ==
    [][\A s \in Subs :
         (Generating(s) /\ pc'[s] = "idle") => isLoading' = FALSE]_vars

\* C5: at most one call is generating at any time.
C5_OneAtATime == Cardinality({s \in Subs : Generating(s)}) <= 1

\* C6: the list addToHistory(e) writes is e followed by the list stored
\* immediately before the write, minus e, cut to MAX_HISTORY: nothing takes
\* effect between its read and its write.
C6_AtomicRecord ==
    [][\A s \in Subs : Stores(s) => stored' = Recorded(prompt[s], stored)]_vars

\* Use Prompt on entry e acts in this step (its timer is set)
Recalls(e) == timers' = Append(timers, e)

\* C7 as stated: Use Prompt on E sets searchText to E, leaves isLoading
\* unchanged and false, changes neither history and calls no backend.
C7_RecallIdle ==
    [][\A e \in Requests :
         Recalls(e) =>
            /\ searchText' = e
            /\ isLoading' = isLoading
            /\ isLoading' = FALSE
            /\ UNCHANGED <<stored, history, pc, calls>>]_vars

\* C7 as amended: Use Prompt on E sets searchText to E, leaves isLoading as
\* it is, changes neither history and starts or advances no call; a backend
\* call is made only by a call of generateCommand, in a step that is no
\* Use Prompt.
C7_RecallSeedsOnly ==
    /\ [][\A e \in Requests :
            Recalls(e) =>
               /\ searchText' = e
               /\ isLoading' = isLoading
               /\ UNCHANGED <<stored, history, pc, calls>>]_vars
    /\ [][\A s \in Subs :
            (~calls[s].backend /\ calls'[s].backend) =>
               /\ pc[s] = "gatherContext"
               /\ timers' = timers]_vars

\* an entry has been recalled while a call was generating
C7_Witness ==
    /\ timers # <<>>
    /\ searchText = timers[Len(timers)]
    /\ isLoading
    /\ \E s \in Subs : Generating(s)

\* the React cells and the stored list
observable == <<isLoading, searchText, listKey, stored, history>>

\* C8: generateCommand on a text that is blank after trimming shows the
\* notice and nothing else: isLoading, searchText, listKey and both histories
\* stay, and the call probes no context, calls no backend, writes no history
\* and delivers nothing before it returns.
C8_BlankRejected ==
    /\ [](\A s \in Subs :
            pc[s] = "rejected" =>
               calls[s] = [NoCalls EXCEPT !.toast = "Please enter a description",
                                          !.failure = "validation"])
    /\ [][\A s \in Subs :
            /\ (pc[s] = "idle" /\ pc'[s] # "idle" /\ IsBlank(searchText)) =>
                  (pc'[s] = "rejected" /\ UNCHANGED observable)
            /\ (pc[s] = "rejected" /\ pc'[s] # "rejected") =>
                  (pc'[s] = "idle" /\ UNCHANGED observable)]_vars

\* a text of whitespace only has been turned down
C8_Witness ==
    \E s \in Subs :
        /\ pc[s] = "rejected"
        /\ prompt[s] = Spaces
        /\ ~isLoading

\* C9: a call whose history write failed returns having shown a failure toast
\* and having delivered the command.
C9_DeliveredDespiteWriteFailure ==
    [][\A s \in Subs :
         (calls[s].failure = "write" /\ pc'[s] = "idle") =>
            /\ calls[s].toast # "none"
            /\ calls[s].clipboard # "none"]_vars

\* C10: a failed read counts as an empty history: the mount effect leaves the
\* cached history empty, and addToHistory goes on with an empty list, to store
\* the one-element list, without failing the call.
C10_ReadFailureTolerated ==
    [][/\ (loadPc = "getItem" /\ loadPc' = "rejected") => history' = <<>>
       /\ \A s \in Subs :
            (calls[s].failure # "read" /\ calls'[s].failure = "read") =>
               /\ pc'[s] = "setItem"
               /\ hist'[s] = <<>>
               /\ calls'[s].toast = "none"]_vars

\* ------------------------------------------------------------ one request:
\* properties of PromptSpec

\* buildPrompt has returned
Built == gatherPc = "create" \/ gatherPc = "sent"
\* a request has been made of a provider
Sent == request # NoRequest

\* the provider and the credential that go with a model of the preferences
\* (README, Configuration)
ProviderOf(m) == IF m = "gemini-flash-lite" THEN "google" ELSE "anthropic"
CredentialOf(m) ==
    IF m = "gemini-flash-lite" THEN "googleApiKey" ELSE "anthropicApiKey"

\* C11: every generation request goes to the provider that the preference
\* `model` selects, with that provider's credential, and to no other provider.
C11_SelectedProvider ==
    Sent => /\ request.provider = ProviderOf(model)
            /\ request.credential = CredentialOf(model)

\* a field that is there and is not the empty string
NonEmpty(field) == field # undefined /\ Len(field[1]) > 0
\* the fields that survive the filter
HasApp == NonEmpty(context.currentApp) /\ context.currentApp[1] \in RELEVANT_APPS
HasDirectory == NonEmpty(context.currentDirectory)
HasSelection ==
    NonEmpty(context.selectedText) /\ Len(context.selectedText[1]) < SelectedTextLimit
NothingKept == ~HasApp /\ ~HasDirectory /\ ~HasSelection

Request_ == <<"R", "e", "q", "u", "e", "s", "t", ":", " ">>
Context_ == <<"C", "o", "n", "t", "e", "x", "t", ":">>

Expected ==
    Context_
    \o (IF HasApp
        THEN <<"\n">> \o CurrentAppLabel \o context.currentApp[1] ELSE <<>>)
    \o (IF HasDirectory
        THEN <<"\n">> \o CurrentDirectoryLabel \o context.currentDirectory[1]
        ELSE <<>>)
    \o (IF HasSelection
        THEN <<"\n">> \o SelectedTextLabel \o context.selectedText[1] ELSE <<>>)
    \o <<"\n", "\n">> \o Request_ \o userPrompt

\* C13: when at least one field survives the filter, the user message starts
\* with the "Context:" header, lists the kept fields in the order app line,
\* directory line, selected-text block, leaves out every dropped field, and
\* ends with "Request: " followed by the request text.
C13_ContextThenRequest ==
    Built /\ ~NothingKept => fullPrompt = Expected

\* the app and the directory are kept, the selection at the cap is dropped
C13_Witness ==
    /\ Built
    /\ HasApp
    /\ HasDirectory
    /\ context.selectedText = defined(Filler(SelectedTextLimit))

\* contexts to compare the context of a request with
AppFields == {undefined} \cup {defined(app) : app \in RELEVANT_APPS \cup {Safari, <<>>}}
DirectoryFields == {undefined, defined(<<>>), defined(TabTitle), defined(SessionPath)}
SelectionFields == {undefined} \cup {defined(text) : text \in Selections}
Contexts ==
    [selectedText : SelectionFields, currentApp : AppFields,
     currentDirectory : DirectoryFields]

\* a field's decision is the same in every context that agrees on the field
DecidedFieldByField ==
    \A other \in Contexts :
        /\ other.currentApp = context.currentApp
               => keepsApp(other) = keepsApp(context)
        /\ other.currentDirectory = context.currentDirectory
               => keepsDirectory(other) = keepsDirectory(context)
        /\ other.selectedText = context.selectedText
               => keepsSelectedText(other) = keepsSelectedText(context)

\* C14 as stated: the app is kept exactly when it is in RELEVANT_APPS, the
\* directory exactly when it is present, the selected text exactly when it is
\* present with length < 2000, and each decision depends on its own field
\* only.
C14_KeptWhenPresent ==
    /\ keepsApp(context) <=> /\ context.currentApp # undefined
                             /\ context.currentApp[1] \in RELEVANT_APPS
    /\ keepsDirectory(context) <=> context.currentDirectory # undefined
    /\ keepsSelectedText(context) <=>
           /\ context.selectedText # undefined
           /\ Len(context.selectedText[1]) < SelectedTextLimit
    /\ DecidedFieldByField

\* C14 (amended): the app is kept exactly when it is in RELEVANT_APPS, the
\* directory exactly when it is present and not the empty string, the selected
\* text exactly when it is present, not empty and of length < 2000, and each
\* decision depends on its own field only.
C14_KeptWhenNonEmpty ==
    /\ keepsApp(context) <=> HasApp
    /\ keepsDirectory(context) <=> HasDirectory
    /\ keepsSelectedText(context) <=> HasSelection
    /\ DecidedFieldByField

\* the prompt is built from a relevant app, a directory the script gave as
\* the empty string, and a selection below the cap
C14_Witness ==
    /\ Built
    /\ HasApp
    /\ context.currentDirectory = defined(<<>>)
    /\ context.selectedText = defined(Filler(SelectedTextLimit - 1))

TerminalApps == {Terminal, iTerm2, iTerm}
DirectoryLine == <<"\n">> \o CurrentDirectoryLabel
AppLine(app) == <<"\n">> \o CurrentAppLabel \o app \o <<"\n">>

\* C20: a directory is acquired only when the frontmost app is Terminal,
\* iTerm2 or iTerm, each of which is in RELEVANT_APPS; so a prompt with a
\* "Current directory:" line has a "Current app:" line naming one of them.
C20_DirectoryWithTerminal ==
    /\ TerminalApps \subseteq RELEVANT_APPS
    /\ context.currentDirectory # undefined
           => context.currentApp \in {defined(app) : app \in TerminalApps}
    /\ Built /\ includes(fullPrompt, DirectoryLine)
           => \E app \in TerminalApps : includes(fullPrompt, AppLine(app))

\* a prompt with the directory of an iTerm2 session
C20_Witness ==
    /\ Built
    /\ context.currentApp = defined(iTerm2)
    /\ includes(fullPrompt, DirectoryLine \o SessionPath)

\* ------------------------------------------------------------ the filter:
\* properties of FilterSpec

\* the two cases of a letter
CasePairs ==
    {{"a", "A"}, {"b", "B"}, {"e", "E"}, {"g", "G"}, {"h", "H"}, {"l", "L"},
     {"m", "M"}, {"p", "P"}, {"t", "T"}, {"z", "Z"}}
SameLetter(c, d) == c = d \/ {c, d} \in CasePairs
\* entry h contains q as a substring when case is ignored
Contains(h, q) ==
    \E i \in 0..(Len(h) - Len(q)) :
        \A k \in 1..Len(q) : SameLetter(h[i + k], q[k])
\* the entries of H that contain q, in H's order
Containing(H, q) == SelectSeq(H, LAMBDA h : Contains(h, q))

\* C15 as stated: the displayed history is the subsequence of the cached
\* history of exactly the entries that contain the search text, case ignored;
\* it is the cached history unchanged when the search text is empty.
C15_FilterBySubstring ==
    /\ filteredHistory = Containing(history, searchText)
    /\ searchText = <<>> => filteredHistory = history

\* C15 (amended): when the search text is empty or only whitespace the
\* displayed history is the cached history unchanged; otherwise it is the
\* subsequence, in order, of exactly the entries that contain the search text
\* as typed, case ignored.
C15_FilterUnlessBlank ==
    IF IsBlank(searchText)
    THEN filteredHistory = history
    ELSE filteredHistory = Containing(history, searchText)

\* "AL" typed over Alpha, beta, Gamma shows Alpha only
C15_Witness ==
    /\ history = <<Alpha, Beta, Gamma>>
    /\ searchText = <<"A", "L">>
    /\ filteredHistory = <<Alpha>>

\* ------------------------------------------------------------ properties of
\* Spec, continued

\* C16: Clear History is idempotent. Its removal leaves the persisted history
\* empty, whether or not it was empty already, and its continuation leaves the
\* cached history empty; neither raises a failure or touches a call; and the
\* persisted history, once empty, stays empty until a call of generateCommand
\* stores a list. So after a clear, and after a second clear right after it,
\* both histories are empty.
C16_ClearIdempotent ==
    /\ [][clearing' > clearing =>
            /\ stored' = <<>>
            /\ UNCHANGED <<history, pc, calls>>]_vars
    /\ [][clearing' < clearing =>
            /\ history' = <<>>
            /\ UNCHANGED <<stored, pc, calls>>]_vars
    /\ [][(stored = <<>> /\ stored' # <<>>) => \E s \in Subs : Stores(s)]_vars

\* a second Clear History has removed the item right after the first did
C16_Witness ==
    /\ clearing = 2
    /\ stored = <<>>
    /\ \A s \in Subs : pc[s] = "idle"

\* the Recalls made so far: those whose timer has run and those pending
recalls == listKey + Len(timers)

\* C17 as stated: listKey never decreases, changes only through a Recall, by
\* one for each Recall, and when the increment of a Recall of entry E takes
\* effect searchText equals E.
C17_EpochWithText ==
    /\ [][listKey' >= listKey]_vars
    /\ [][listKey' # listKey =>
            /\ timers # <<>>
            /\ timers' = Tail(timers)
            /\ listKey' = listKey + 1
            /\ searchText = Head(timers)
            /\ searchText' = Head(timers)]_vars
    /\ [][recalls' # recalls =>
            /\ recalls' = recalls + 1
            /\ \E e \in Requests : Recalls(e)]_vars

\* C17 (amended): listKey never decreases, changes only when the timer of a
\* Recall runs, by one for each Recall; a Recall of entry E sets searchText to
\* E at once and the increment leaves searchText as it is; searchText stops
\* being the entry recalled last only by a step that types into the search
\* bar. So searchText equals E when the increment takes effect unless the
\* user has typed, or recalled another entry, in between.
C17_EpochLeavesText ==
    /\ [][listKey' >= listKey]_vars
    /\ [][listKey' # listKey =>
            /\ timers # <<>>
            /\ timers' = Tail(timers)
            /\ listKey' = listKey + 1
            /\ searchText' = searchText]_vars
    /\ [][recalls' # recalls =>
            /\ recalls' = recalls + 1
            /\ listKey' = listKey
            /\ \E e \in Requests : Recalls(e) /\ searchText' = e]_vars
    /\ [][(/\ timers # <<>>
           /\ searchText = timers[Len(timers)]
           /\ timers' # <<>>
           /\ searchText' # timers'[Len(timers')]) =>
              /\ searchText' # searchText
              /\ UNCHANGED <<timers, listKey, stored, history, pc>>]_vars

\* the timer of a Recall has run and the search bar holds the entry
C17_Witness ==
    /\ listKey = 1
    /\ timers = <<>>
    /\ searchText = Name(2)
    /\ Name(2) \in Range(history)

\* no handler is in flight: the load, every call, every clear has completed
Quiescent ==
    /\ loadPc = "done"
    /\ clearing = 0
    /\ timers = <<>>
    /\ \A s \in Subs : pc[s] = "idle"

\* C19: whenever no operation is in flight, the cached history equals the
\* persisted history.
C19_CacheCoherent == Quiescent => history = stored

\* ------------------------------------------------------------ dismissal:
\* property of DismissSpec

\* C18: once the window is dismissed while a call is generating, no call
\* writes the history, updates the cached history or delivers a command.
C18_NoEffectAfterClose ==
    [][dismissed =>
         \A s \in Subs :
            /\ ~Stores(s)
            /\ calls[s].setHistory = calls'[s].setHistory \/ pc'[s] = "idle"
            /\ calls[s].clipboard = calls'[s].clipboard \/ pc'[s] = "idle"
            /\ calls[s].hud = calls'[s].hud \/ pc'[s] = "idle"]_vars

====
